---- MODULE Spec2Model ----
(***************************************************************************)
(* The /astats endpoint of video-svc (src/server.js, lines 323-530): the   *)
(* energy-based activity-range detector and the request handler that       *)
(* drives it.                                                              *)
(*                                                                         *)
(* Scale.  Times are integers counting twentieths of a second (1 s = 20),  *)
(* levels are integers in dB, a percentile is an integer in percent        *)
(* (0.6 = 60).  The arithmetic is exact; floating-point rounding is        *)
(* outside the model.  NaN is the one non-number a parseFloat can return.  *)
(***************************************************************************)
EXTENDS Integers, Sequences, FiniteSets

VARIABLES pc, body, tmpVid, invoked, failed, loc, res

vars == <<pc, body, tmpVid, invoked, failed, loc, res>>

(***************************************************************************)
(* Bounds of the model.                                                    *)
(***************************************************************************)
MaxTokens == 4

(***************************************************************************)
(* Program constants: the destructuring defaults of the handler, scaled.   *)
(***************************************************************************)
DEFAULT_MAX_SECONDS == 24000
DEFAULT_PERCENTILE == 60
DEFAULT_BASE_DB == -35
DEFAULT_PAD == 24
DEFAULT_MERGE_GAP == 20
MIN_MAX_SEC == 20
SYNTH_STEP == 10

(***************************************************************************)
(* JavaScript numbers.  NaN compares false with everything and propagates  *)
(* through Math.max, Math.min, + and -.                                    *)
(***************************************************************************)
NaN == -999999

IsNaN(x) == x = NaN

JsGE(a, b) == ~IsNaN(a) /\ ~IsNaN(b) /\ a >= b

JsGT(a, b) == ~IsNaN(a) /\ ~IsNaN(b) /\ a > b

JsLE(a, b) == ~IsNaN(a) /\ ~IsNaN(b) /\ a <= b

JsLT(a, b) == ~IsNaN(a) /\ ~IsNaN(b) /\ a < b

MathMax(a, b) == IF IsNaN(a) \/ IsNaN(b) THEN NaN ELSE IF a >= b THEN a ELSE b

MathMin(a, b) == IF IsNaN(a) \/ IsNaN(b) THEN NaN ELSE IF a <= b THEN a ELSE b

JsAdd(a, b) == IF IsNaN(a) \/ IsNaN(b) THEN NaN ELSE a + b

JsSub(a, b) == IF IsNaN(a) \/ IsNaN(b) THEN NaN ELSE a - b

\* Number(x) || d : a zero or a NaN is falsy and gives the default
OrDefault(x, d) == IF IsNaN(x) \/ x = 0 THEN d ELSE x

\* a destructured field with a default: an absent field is the empty set,
\* a present one the singleton of its value
Field(s, d) == IF s = {} THEN d ELSE CHOOSE v \in s : TRUE

(***************************************************************************)
(* The diagnostic text of a tool run is a sequence of tokens.  k is the    *)
(* family the regular expressions of the handler recognise, v the value    *)
(* parseFloat gives to the captured group:                                 *)
(*   "pts"    pts_time:<v> or pts_time=<v>                                 *)
(*   "rmsA"   key:lavfi.astats.Overall.RMS_level value:<v>                 *)
(*   "rmsB"   lavfi.astats.Overall.RMS_level=<v>                           *)
(*   "start"  silence_start: <v>                                           *)
(*   "end"    silence_end: <v>                                             *)
(*   "junk"   anything no pattern matches                                  *)
(***************************************************************************)
Tok(k, v) == [k |-> k, v |-> v]

\* the values a global regular expression captures, in order of appearance
RECURSIVE Matches(_, _)
Matches(out, kinds) ==
    IF out = <<>> THEN <<>>
    ELSE IF Head(out).k \in kinds
         THEN <<Head(out)>> \o Matches(Tail(out), kinds)
         ELSE Matches(Tail(out), kinds)

Values(toks) == [i \in 1..Len(toks) |-> toks[i].v]

RECURSIVE KeepLE(_, _)
\* mutant of KeepLE: no timestamp is filtered
KeepAll(s, max) == s

KeepLE(s, max) ==
    IF s = <<>> THEN <<>>
    ELSE IF JsLE(Head(s), max) THEN <<Head(s)>> \o KeepLE(Tail(s), max)
         ELSE KeepLE(Tail(s), max)

\* server.js 405-411
ParseTimes(out, MAX_T) == KeepLE(Values(Matches(out, {"pts"})), MAX_T)

\* server.js 414-418: every format-A match, then every format-B match
ParseRms(out) == Values(Matches(out, {"rmsA"})) \o Values(Matches(out, {"rmsB"}))

Min2(a, b) == IF a <= b THEN a ELSE b

RECURSIVE Synthetic(_, _, _)
Synthetic(rms, i, MAX_T) ==
    IF i > Len(rms) THEN <<>>
    ELSE IF (i - 1) * SYNTH_STEP <= MAX_T
         THEN <<[t |-> (i - 1) * SYNTH_STEP, rms |-> rms[i]]>> \o Synthetic(rms, i + 1, MAX_T)
         ELSE Synthetic(rms, i + 1, MAX_T)

\* server.js 420-429: pairing by position, or synthetic timestamps
PairSamples(times, rms, MAX_T) ==
    LET N == IF Len(times) = 0 THEN Len(rms) ELSE Min2(Len(times), Len(rms))
    IN  IF N # 0 /\ Len(times) # 0
        THEN [i \in 1..N |-> [t |-> times[i], rms |-> rms[i]]]
        ELSE IF Len(rms) # 0 THEN Synthetic(rms, 1, MAX_T)
        ELSE <<>>

ParseSamples(out, MAX_T) == PairSamples(ParseTimes(out, MAX_T), ParseRms(out), MAX_T)

(***************************************************************************)
(* ThresholdSelector, server.js 477-481.                                   *)
(***************************************************************************)
Levels(pts) == [i \in 1..Len(pts) |-> pts[i].rms]

\* mutant: the comparator is (a, b) => b - a
RECURSIVE InsertDesc(_, _)
InsertDesc(x, s) ==
    IF s = <<>> THEN <<x>>
    ELSE IF x > Head(s) THEN <<x>> \o s
         ELSE <<Head(s)>> \o InsertDesc(x, Tail(s))

RECURSIVE InsertAsc(_, _)
InsertAsc(x, s) ==
    IF s = <<>> THEN <<x>>
    ELSE IF x < Head(s) THEN <<x>> \o s
         ELSE <<Head(s)>> \o InsertAsc(x, Tail(s))

RECURSIVE SortAsc(_)
SortAsc(s) == IF s = <<>> THEN <<>> ELSE InsertAsc(s[Len(s)], SortAsc(SubSeq(s, 1, Len(s) - 1)))

Permutations(s) ==
    { [i \in 1..Len(s) |-> s[f[i]]] :
        f \in { g \in [1..Len(s) -> 1..Len(s)] : \A i, j \in 1..Len(s) : g[i] = g[j] => i = j } }

\* [...pts].map(p => p.rms).sort((a, b) => a - b).  With numbers only the
\* result is the ascending order.  With a NaN among them the comparator is
\* not a consistent one and the order is implementation-defined: any
\* permutation.
SortOutcomes(levels) ==
    IF \E i \in 1..Len(levels) : IsNaN(levels[i])
    THEN Permutations(levels)
    ELSE {SortAsc(levels)}

\* mutant: the rank counts the steps between the levels, floor((n - 1) * percentile)
RankIndexBelow(n, percentile) ==
    LET f == ((n - 1) * percentile) \div 100
        lo == IF f < 0 THEN 0 ELSE f
    IN  IF lo > n - 1 THEN n - 1 ELSE lo

\* Math.min(sorted.length - 1, Math.max(0, Math.floor(sorted.length * percentile)))
RankIndex(n, percentile) ==
    LET f == (n * percentile) \div 100
        lo == IF f < 0 THEN 0 ELSE f
    IN  IF lo > n - 1 THEN n - 1 ELSE lo

\* sorted[idx], with the 0-based idx of the code
Pctl(sorted, percentile) == sorted[RankIndex(Len(sorted), percentile) + 1]

\* Math.max(Number(pctl), Number(base_db))
\* mutant of Threshold: the floor is added to the percentile level
ThresholdSum(sorted, percentile, base_db) ==
    JsAdd(Pctl(sorted, percentile), MathMax(base_db, 1))

Threshold(sorted, percentile, base_db) == MathMax(Pctl(sorted, percentile), base_db)

(***************************************************************************)
(* RangeBuilder, primary: server.js 486-496.                               *)
(***************************************************************************)
Interval(s, e) == [start |-> s, end |-> e]

\* mutant: the comparison is strict
IsActiveStrict(level, TH) == JsGT(level, TH)

\* p.rms >= TH
IsActive(level, TH) == JsGE(level, TH)

\* the state of the scan is the raw list and cur; cur is <<>> for null and
\* <<interval>> for an open interval
RECURSIVE ScanFrom(_, _, _, _, _, _)
ScanFrom(pts, i, raw, cur, TH, MAX_T) ==
    IF i > Len(pts) THEN [raw |-> raw, cur |-> cur]
    ELSE IF JsGT(pts[i].t, MAX_T) THEN [raw |-> raw, cur |-> cur]
    ELSE IF IsActive(pts[i].rms, TH)
         THEN ScanFrom(pts, i + 1, raw,
                       IF cur # <<>> THEN <<Interval(cur[1].start, pts[i].t)>>
                                     ELSE <<Interval(pts[i].t, pts[i].t)>>,
                       TH, MAX_T)
    ELSE IF cur # <<>> THEN ScanFrom(pts, i + 1, Append(raw, cur[1]), <<>>, TH, MAX_T)
    ELSE ScanFrom(pts, i + 1, raw, cur, TH, MAX_T)

\* mutant: the interval still open at the end of the scan is dropped
CloseTrailingDropped(scan) == scan.raw

\* if (cur) raw.push(cur)
CloseTrailing(scan) == IF scan.cur # <<>> THEN Append(scan.raw, scan.cur[1]) ELSE scan.raw

RawRanges(pts, TH, MAX_T) == CloseTrailing(ScanFrom(pts, 1, <<>>, <<>>, TH, MAX_T))

(***************************************************************************)
(* RangeMerger: server.js 498-507.                                         *)
(***************************************************************************)
\* mutant: the interval is not padded
PadOneNone(r, PAD) == r

\* { start: Math.max(0, r.start - PAD), end: r.end + PAD }
PadOne(r, PAD) == Interval(MathMax(0, JsSub(r.start, PAD)), JsAdd(r.end, PAD))

PadAll(raw, PAD) == [i \in 1..Len(raw) |-> PadOne(raw[i], PAD)]

\* Array.prototype.sort is stable: an interval goes after the ones whose
\* start is not greater.  (a, b) => a.start - b.start
RECURSIVE InsertByStart(_, _)
InsertByStart(r, s) ==
    IF s = <<>> THEN <<r>>
    ELSE IF JsLT(r.start, Head(s).start) THEN <<r>> \o s
         ELSE <<Head(s)>> \o InsertByStart(r, Tail(s))

RECURSIVE SortByStart(_)
SortByStart(s) ==
    IF s = <<>> THEN <<>>
    ELSE InsertByStart(s[Len(s)], SortByStart(SubSeq(s, 1, Len(s) - 1)))

\* mutant: a gap equal to MERGE starts a new range
StartsNewGE(r, last, MERGE) == JsGE(JsSub(r.start, last.end), MERGE)

\* !last || r.start - last.end > MERGE : r starts a new merged range
StartsNew(r, last, MERGE) == JsGT(JsSub(r.start, last.end), MERGE)

RECURSIVE MergeFrom(_, _, _, _)
MergeFrom(ranges, i, merged, MERGE) ==
    IF i > Len(ranges) THEN merged
    ELSE LET r == ranges[i]
             n == Len(merged)
         IN  IF n = 0 \/ StartsNew(r, merged[n], MERGE)
             THEN MergeFrom(ranges, i + 1, Append(merged, r), MERGE)
             ELSE MergeFrom(ranges, i + 1,
                            [merged EXCEPT ![n].end = MathMax(merged[n].end, r.end)], MERGE)

MergeRanges(ranges, MERGE) == MergeFrom(ranges, 1, <<>>, MERGE)

PadSort(raw, PAD) == SortByStart(PadAll(raw, PAD))

(***************************************************************************)
(* RangeBuilder, fallback: server.js 431-447.                              *)
(***************************************************************************)
\* mutant: the pattern also takes a loudness line for a silence event
ParseNoiseLoose(out) == Matches(out, {"start", "end", "rmsB"})

\* /silence_(start|end):\s*([-\d.]+)/g
ParseNoise(out) == Matches(out, {"start", "end"})

RECURSIVE InvertFrom(_, _, _, _, _)
InvertFrom(noise, i, last, ranges, MAX_T) ==
    IF i > Len(noise)
    THEN IF JsLT(last, MAX_T) THEN Append(ranges, Interval(last, MAX_T)) ELSE ranges
    ELSE IF noise[i].k = "start"
         THEN LET end == MathMin(noise[i].v, MAX_T)
              IN  IF JsGT(end, last)
                  THEN InvertFrom(noise, i + 1, last, Append(ranges, Interval(last, end)), MAX_T)
                  ELSE InvertFrom(noise, i + 1, last, ranges, MAX_T)
         ELSE InvertFrom(noise, i + 1, MathMin(noise[i].v, MAX_T), ranges, MAX_T)

\* mutant: the walk is cut at the default horizon, whatever the request asked
SilenceRangesDefaultHorizon(noise, MAX_T) ==
    InvertFrom(noise, 1, 0, <<>>, DEFAULT_MAX_SECONDS)

SilenceRanges(noise, MAX_T) == InvertFrom(noise, 1, 0, <<>>, MAX_T)

(***************************************************************************)
(* The request handler, server.js 323-531.  One request is one run of the  *)
(* async handler; it is suspended at each await (download, probe, each     *)
(* tool run) and everything between two awaits is one step.                *)
(***************************************************************************)
NoLocals ==
    [path |-> "none", hasAudio |-> "unknown", method |-> "astats_ametadata", out |-> <<>>, MAX_T |-> 0,
     pts |-> <<>>, sorted |-> <<>>, TH |-> 0, PAD |-> 0, MERGE |-> 0,
     raw |-> <<>>, ranges |-> <<>>, merged |-> <<>>, noise |-> <<>>]

NoBody ==
    [video_url |-> FALSE, source |-> "absent", max_seconds |-> {}, percentile |-> {},
     base_db |-> {}, pad |-> {}, merge_gap |-> {}]

NoCalls == [ffprobe |-> 0, astats |-> 0, silencedetect |-> 0]

InitFor(R) ==
    /\ pc = [r \in R |-> "idle"]
    /\ body = [r \in R |-> NoBody]
    /\ tmpVid = [r \in R |-> "none"]
    /\ invoked = [r \in R |-> NoCalls]
    /\ failed = [r \in R |-> {}]
    /\ loc = [r \in R |-> NoLocals]
    /\ res = [r \in R |-> <<>>]

\* Math.max(1, Number(max_seconds) || 1200)
MaxSec(b) ==
    MathMax(MIN_MAX_SEC, OrDefault(Field(b.max_seconds, DEFAULT_MAX_SECONDS), DEFAULT_MAX_SECONDS))

BaseDb(b) == Field(b.base_db, DEFAULT_BASE_DB)

\* source?.bucket ? "sdk" : "http"
Mode(b) == IF b.source = "ok" THEN "sdk" ELSE "http"

\* mutant: one response slot shared by the requests in flight
SendShared(r, response) ==
    res' = [q \in DOMAIN res |-> IF q = r THEN <<response>> ELSE <<>>]

\* res.json / res.status(..).json of the request's own res object
Send(r, response) == res' = [res EXCEPT ![r] = Append(@, response)]

\* mutant of BadRequest: the request is refused as a failure of the server
BadRequestAsFailure ==
    [status |-> 500, ok |-> FALSE, error |-> "video_url OR source{bucket,path} required"]

BadRequest == [status |-> 400, ok |-> FALSE, error |-> "video_url OR source{bucket,path} required"]

ServerError(what) == [status |-> 500, ok |-> FALSE, error |-> what]

Answer(b, threshold, ranges, points, note, method) ==
    [status |-> 200, ok |-> TRUE, threshold |-> threshold, ranges |-> ranges,
     limited |-> TRUE, points |-> points, note |-> note, method |-> method, mode |-> Mode(b)]

\* the catch block, server.js 520-530: the temp file is left as it is
Catch(r, what) ==
    /\ Send(r, ServerError(what))
    /\ pc' = [pc EXCEPT ![r] = "done"]
    /\ failed' = [failed EXCEPT ![r] = @ \cup {what}]

\* server.js 324-344
Arrive(r, bodies) ==
    /\ pc[r] = "idle"
    /\ \E b \in bodies :
        /\ body' = [body EXCEPT ![r] = b]
        /\ IF ~b.video_url /\ b.source = "absent"
           THEN /\ Send(r, BadRequest)
                /\ pc' = [pc EXCEPT ![r] = "done"]
           ELSE /\ pc' = [pc EXCEPT ![r] = "download"]
                /\ res' = res
    /\ UNCHANGED <<tmpVid, invoked, failed, loc>>

\* downloadToTempSmart, server.js 144-153
DownloadVia(b) ==
    IF b.source = "ok" THEN "sdk" ELSE IF b.video_url THEN "http" ELSE "throw"

\* the download succeeded: the temp file exists and the probe is started
DownloadOk(r) ==
    /\ pc[r] = "download"
    /\ DownloadVia(body[r]) # "throw"
    /\ tmpVid' = [tmpVid EXCEPT ![r] = "exists"]
    /\ invoked' = [invoked EXCEPT ![r].ffprobe = @ + 1]
    /\ pc' = [pc EXCEPT ![r] = "probe"]
    /\ UNCHANGED <<body, failed, loc, res>>

\* the download threw, before or after tmp.fileSync created the file
DownloadFail(r) ==
    /\ pc[r] = "download"
    /\ \E created \in BOOLEAN :
        /\ created => DownloadVia(body[r]) # "throw"
        /\ tmpVid' = [tmpVid EXCEPT ![r] = IF created THEN "exists" ELSE "none"]
    /\ Catch(r, "download")
    /\ UNCHANGED <<body, invoked, loc>>

\* mutant: any output of a probe that ran counts as an audio stream
HasAudioStreamAnyOutput(o) == o # "fail"

\* mutant of HasAudioStream: a probe that could not run counts as audio
HasAudioStreamUnlessEmpty(o) == o # "empty"

\* hasAudioStream, server.js 156-166.  The probe prints the index of every
\* audio stream ("stream"), prints nothing ("empty"), or cannot be run or
\* exits non-zero ("fail": execAsync rejects and the catch returns false)
HasAudioStream(o) == o = "stream"

\* server.js 350-360
NoAudioAnswer(b) == Answer(b, BaseDb(b), <<>>, 0, "no_audio_track", "no_audio")

\* mutant: no sample is answered as a failure of the request
EmptySamplesRejected(b) == ServerError("no samples")

\* server.js 464-474
EmptySamplesAnswer(b) == Answer(b, BaseDb(b), <<>>, 0, "no_rms_lines", "astats_ametadata")

\* the probe ends, and the no-audio branch: server.js 347-361
ProbeDone(r, outcomes) ==
    /\ pc[r] = "probe"
    /\ \E o \in outcomes :
        LET hasAudio == HasAudioStream(o)
        IN  /\ failed' = [failed EXCEPT ![r] = IF o = "fail" THEN @ \cup {"ffprobe"} ELSE @]
            /\ loc' = [loc EXCEPT ![r].hasAudio = o]
            /\ IF ~hasAudio
               THEN /\ tmpVid' = [tmpVid EXCEPT ![r] = "removed"]
                    /\ Send(r, NoAudioAnswer(body[r]))
                    /\ pc' = [pc EXCEPT ![r] = "done"]
                    /\ invoked' = invoked
               ELSE /\ invoked' = [invoked EXCEPT ![r].astats = @ + 1]
                    /\ pc' = [pc EXCEPT ![r] = "attempt1"]
                    /\ UNCHANGED <<tmpVid, res>>
    /\ UNCHANGED body

\* server.js 399-429 and 462-519: parse the text of the primary tool, then
\* threshold, ranges and response
AnalysePrimary(r, out) ==
    LET b == body[r]
        MAX_T == MaxSec(b)
        pts == ParseSamples(out, MAX_T)
    IN  IF pts = <<>>
        THEN /\ loc' = [loc EXCEPT ![r] = [@ EXCEPT !.path = "empty", !.out = out,
                                                    !.MAX_T = MAX_T]]
             /\ Send(r, EmptySamplesAnswer(b))
        ELSE \E sorted \in SortOutcomes(Levels(pts)) :
                LET TH == Threshold(sorted, Field(b.percentile, DEFAULT_PERCENTILE), BaseDb(b))
                    PAD == OrDefault(Field(b.pad, DEFAULT_PAD), DEFAULT_PAD)
                    MERGE == OrDefault(Field(b.merge_gap, DEFAULT_MERGE_GAP), DEFAULT_MERGE_GAP)
                    raw == RawRanges(pts, TH, MAX_T)
                    ranges == PadSort(raw, PAD)
                    merged == MergeRanges(ranges, MERGE)
                IN  /\ loc' = [loc EXCEPT ![r] =
                                 [@ EXCEPT !.path = "primary", !.out = out,
                                    !.MAX_T = MAX_T, !.pts = pts, !.sorted = sorted, !.TH = TH,
                                    !.PAD = PAD, !.MERGE = MERGE, !.raw = raw,
                                    !.ranges = ranges, !.merged = merged]]
                    /\ Send(r, Answer(b, TH, merged, Len(pts), "none", "astats_ametadata"))

\* server.js 430-460: the text of silencedetect, inverted
AnalyseFallback(r, out) ==
    LET b == body[r]
        MAX_T == MaxSec(b)
        noise == ParseNoise(out)
        ranges == SilenceRanges(noise, MAX_T)
    IN  /\ loc' = [loc EXCEPT ![r] = [@ EXCEPT !.path = "fallback", !.out = out,
                                        !.method = "silencedetect_fallback",
                                        !.MAX_T = MAX_T, !.noise = noise, !.ranges = ranges]]
        /\ Send(r, Answer(b, BaseDb(b), ranges, 0, "none", "silencedetect_fallback"))

\* attempt 1 (-map a:0) exits 0, server.js 376-378
Attempt1Ok(r, texts) ==
    /\ pc[r] = "attempt1"
    /\ \E out \in texts : AnalysePrimary(r, out)
    /\ tmpVid' = [tmpVid EXCEPT ![r] = "removed"]
    /\ pc' = [pc EXCEPT ![r] = "done"]
    /\ UNCHANGED <<body, invoked, failed>>

\* attempt 1 fails: attempt 2 is started, server.js 379-383
Attempt1Fail(r) ==
    /\ pc[r] = "attempt1"
    /\ failed' = [failed EXCEPT ![r] = @ \cup {"attempt1"}]
    /\ invoked' = [invoked EXCEPT ![r].astats = @ + 1]
    /\ pc' = [pc EXCEPT ![r] = "attempt2"]
    /\ UNCHANGED <<body, tmpVid, loc, res>>

\* attempt 2 exits 0, server.js 383-384
Attempt2Ok(r, texts) ==
    /\ pc[r] = "attempt2"
    /\ \E out \in texts : AnalysePrimary(r, out)
    /\ tmpVid' = [tmpVid EXCEPT ![r] = "removed"]
    /\ pc' = [pc EXCEPT ![r] = "done"]
    /\ UNCHANGED <<body, invoked, failed>>

\* attempt 2 fails: silencedetect is started, server.js 385-394
Attempt2Fail(r) ==
    /\ pc[r] = "attempt2"
    /\ failed' = [failed EXCEPT ![r] = @ \cup {"attempt2"}]
    /\ invoked' = [invoked EXCEPT ![r].silencedetect = @ + 1]
    /\ loc' = [loc EXCEPT ![r].method = "silencedetect_fallback"]
    /\ pc' = [pc EXCEPT ![r] = "silencedetect"]
    /\ UNCHANGED <<body, tmpVid, res>>

\* silencedetect exits 0, server.js 394-395 and 430-460
SilenceOk(r, texts) ==
    /\ pc[r] = "silencedetect"
    /\ \E out \in texts : AnalyseFallback(r, out)
    /\ tmpVid' = [tmpVid EXCEPT ![r] = "removed"]
    /\ pc' = [pc EXCEPT ![r] = "done"]
    /\ UNCHANGED <<body, invoked, failed>>

\* mutant: the failure of silencedetect is swallowed and its (empty) text
\* is parsed like the text of a run that succeeded
SilenceFailSwallowed(r) ==
    /\ pc[r] = "silencedetect"
    /\ AnalyseFallback(r, <<>>)
    /\ failed' = [failed EXCEPT ![r] = @ \cup {"silencedetect"}]
    /\ tmpVid' = [tmpVid EXCEPT ![r] = "removed"]
    /\ pc' = [pc EXCEPT ![r] = "done"]
    /\ UNCHANGED <<body, invoked>>

\* silencedetect fails: execAsync rejects inside the innermost catch and the
\* rejection reaches the handler's catch block
SilenceFail(r) ==
    /\ pc[r] = "silencedetect"
    /\ Catch(r, "silencedetect")
    /\ UNCHANGED <<body, tmpVid, invoked, loc>>

(***************************************************************************)
(* The /astats endpoint of the sibling server of src/unnamed/part_002      *)
(* (lines 51-62 and 85-277): ffmpeg reads the URL itself, there is no      *)
(* download and no probe; run never throws; the threshold is an            *)
(* interpolated quantile, kept here in hundredths of a dB.                 *)
(***************************************************************************)
P2_DEFAULT_MAX_SECONDS == 24000
P2_MAX_MAX_SECONDS == 432000
P2_DEFAULT_PERCENTILE == 60
P2_MIN_PERCENTILE == 1
P2_MAX_PERCENTILE == 99
P2_DEFAULT_PAD == 24
P2_DEFAULT_MERGE_GAP == 16

\* Math.max(a, Math.min(b, n))
clamp(n, a, b) == MathMax(a, MathMin(b, n))

RECURSIVE KeepFinite(_)
KeepFinite(s) ==
    IF s = <<>> THEN <<>>
    ELSE IF IsNaN(Head(s)) THEN KeepFinite(Tail(s))
         ELSE <<Head(s)>> \o KeepFinite(Tail(s))

\* /lavfi\.astats\.Overall\.RMS_level=([-\d.]+)/g, finite values only
parseRMS(metaText) == KeepFinite(Values(Matches(metaText, {"rmsB"})))

\* the quantile of arr at q percent, in hundredths: a[base] + (a[base + 1] -
\* a[base]) * rest || a[base]; past the last element, or when the sum is 0,
\* the || gives a[base]
quantile(arr, q) ==
    IF Len(arr) = 0 THEN 0
    ELSE LET a == SortAsc(arr)
             pos == clamp((Len(a) - 1) * q, 0, (Len(a) - 1) * 100)
             base == pos \div 100
             rest == pos % 100
             v == IF base + 2 > Len(a) THEN 0
                  ELSE a[base + 1] * 100 + (a[base + 2] - a[base + 1]) * rest
         IN  IF v = 0 THEN a[base + 1] * 100 ELSE v

\* the scan of rangesFromRMS, part_002 121-132; dt is one unit (0.05 s);
\* curStart is <<>> for null
RECURSIVE P2ScanFrom(_, _, _, _, _, _)
P2ScanFrom(pts, i, intervals, curStart, TH, maxT) ==
    IF i > Len(pts)
    THEN IF curStart # <<>>
         THEN Append(intervals, Interval(curStart[1], MathMin(maxT, Len(pts))))
         ELSE intervals
    ELSE LET t == i - 1
             voiced == pts[i] * 100 >= TH
         IN  IF voiced /\ curStart = <<>>
             THEN P2ScanFrom(pts, i + 1, intervals, <<t>>, TH, maxT)
             ELSE IF ~voiced /\ curStart # <<>>
             THEN P2ScanFrom(pts, i + 1, Append(intervals, Interval(curStart[1], t)), <<>>,
                             TH, maxT)
             ELSE P2ScanFrom(pts, i + 1, intervals, curStart, TH, maxT)

\* part_002 135-138
P2PadAll(intervals, pad, maxT) ==
    [i \in 1..Len(intervals) |->
        Interval(clamp(intervals[i].start - pad, 0, maxT),
                 clamp(intervals[i].end + pad, 0, maxT))]

\* cur.start - prev.end <= mergeGap
P2Merges(cur, prev, mergeGap) == cur.start - prev.end <= mergeGap

\* part_002 142-151
RECURSIVE P2MergeFrom(_, _, _, _)
P2MergeFrom(padded, i, merged, mergeGap) ==
    IF i > Len(padded) THEN merged
    ELSE LET n == Len(merged)
         IN  IF P2Merges(padded[i], merged[n], mergeGap)
             THEN P2MergeFrom(padded, i + 1,
                              [merged EXCEPT ![n].end = MathMax(merged[n].end, padded[i].end)],
                              mergeGap)
             ELSE P2MergeFrom(padded, i + 1, Append(merged, padded[i]), mergeGap)

\* part_002 115-153.  maxT / pts.length is above 0.05 s as long as there are
\* at most 20 levels per second of horizon, so that dt is the upper clamp
rangesFromRMS(pts, TH, pad, mergeGap, maxT) ==
    LET intervals == P2ScanFrom(pts, 1, <<>>, <<>>, TH, maxT)
        padded == SortByStart(P2PadAll(intervals, pad, maxT))
    IN  IF padded = <<>> THEN <<>>
        ELSE P2MergeFrom(padded, 2, <<padded[1]>>, mergeGap)

\* clamp(Number(max_seconds) || 1200, 1, 21600)
P2MaxT(b) ==
    clamp(OrDefault(Field(b.max_seconds, NaN), P2_DEFAULT_MAX_SECONDS), MIN_MAX_SEC,
          P2_MAX_MAX_SECONDS)

\* Number(base_db) ?? -35 : Number(undefined) is NaN, which ?? keeps
P2BaseDb(b) == Field(b.base_db, NaN)

\* clamp(Number(percentile) || 0.6, 0.01, 0.99)
P2Pctl(b) ==
    clamp(OrDefault(Field(b.percentile, NaN), P2_DEFAULT_PERCENTILE), P2_MIN_PERCENTILE,
          P2_MAX_PERCENTILE)

\* Number.isFinite(pad) ? Number(pad) : 1.2
P2Pad(b) == Field(b.pad, P2_DEFAULT_PAD)

P2MergeGap(b) == Field(b.merge_gap, P2_DEFAULT_MERGE_GAP)

P2BadRequest == [status |-> 400, ok |-> FALSE, error |-> "video_url es requerido"]

P2Answer(threshold, ranges, points, method) ==
    [status |-> 200, ok |-> TRUE, threshold |-> threshold, ranges |-> ranges,
     limited |-> TRUE, points |-> points, note |-> "none", method |-> method, mode |-> "http"]

\* part_002 179-209: the request arrives and the measurement is started
P2Arrive(r, bodies) ==
    /\ pc[r] = "idle"
    /\ \E b \in bodies :
        /\ body' = [body EXCEPT ![r] = b]
        /\ IF ~b.video_url
           THEN /\ Send(r, P2BadRequest)
                /\ pc' = [pc EXCEPT ![r] = "done"]
                /\ invoked' = invoked
           ELSE /\ pc' = [pc EXCEPT ![r] = "p2_run"]
                /\ invoked' = [invoked EXCEPT ![r].astats = @ + 1]
                /\ res' = res
    /\ UNCHANGED <<tmpVid, failed, loc>>

\* part_002 209-215 and 259-277: the measurement ends (run returns in every
\* case, with the text printed so far); with levels, threshold and ranges;
\* without, silencedetect is started
P2RunDone(r, oks, texts) ==
    /\ pc[r] = "p2_run"
    /\ \E ok \in oks, out \in texts :
        LET b == body[r]
            MAX_T == P2MaxT(b)
            pts == parseRMS(out)
        IN  /\ Len(pts) <= MAX_T
            /\ failed' = [failed EXCEPT ![r] = IF ok THEN @ ELSE @ \cup {"p2_run"}]
            /\ IF pts = <<>>
               THEN /\ loc' = [loc EXCEPT ![r] = [@ EXCEPT !.out = out, !.MAX_T = MAX_T]]
                    /\ invoked' = [invoked EXCEPT ![r].silencedetect = @ + 1]
                    /\ pc' = [pc EXCEPT ![r] = "p2_silence"]
                    /\ res' = res
               ELSE LET thAuto == quantile(pts, P2Pctl(b))
                        TH == P2BaseDb(b)
                        THRESH == IF ~IsNaN(TH) THEN MathMax(TH * 100, thAuto) ELSE thAuto
                        ranges == rangesFromRMS(pts, THRESH, P2Pad(b), P2MergeGap(b), MAX_T)
                    IN  /\ loc' = [loc EXCEPT ![r] =
                                     [@ EXCEPT !.path = "p2_primary", !.out = out,
                                        !.MAX_T = MAX_T, !.pts = pts, !.TH = THRESH,
                                        !.PAD = P2Pad(b), !.MERGE = P2MergeGap(b),
                                        !.merged = ranges]]
                        /\ Send(r, P2Answer(THRESH, ranges, Len(pts), "astats_ametadata"))
                        /\ pc' = [pc EXCEPT ![r] = "done"]
                        /\ invoked' = invoked
    /\ UNCHANGED <<body, tmpVid>>

\* part_002 226-257: silencedetect ends, its text is inverted; the
\* timestamps are clamped into [0, MAX_T]
RECURSIVE P2InvertFrom(_, _, _, _, _)
P2InvertFrom(noise, i, last, ranges, MAX_T) ==
    IF i > Len(noise)
    THEN IF JsLT(last, MAX_T) THEN Append(ranges, Interval(last, MAX_T)) ELSE ranges
    ELSE IF noise[i].k = "start"
         THEN LET end == clamp(noise[i].v, 0, MAX_T)
              IN  IF JsGT(end, last)
                  THEN P2InvertFrom(noise, i + 1, last, Append(ranges, Interval(last, end)),
                                    MAX_T)
                  ELSE P2InvertFrom(noise, i + 1, last, ranges, MAX_T)
         ELSE P2InvertFrom(noise, i + 1, clamp(noise[i].v, 0, MAX_T), ranges, MAX_T)

P2SilenceDone(r, oks, texts) ==
    /\ pc[r] = "p2_silence"
    /\ \E ok \in oks, out \in texts :
        LET MAX_T == P2MaxT(body[r])
            noise == ParseNoise(out)
            ranges == P2InvertFrom(noise, 1, 0, <<>>, MAX_T)
        IN  /\ failed' = [failed EXCEPT ![r] = IF ok THEN @ ELSE @ \cup {"p2_silence"}]
            /\ loc' = [loc EXCEPT ![r] = [@ EXCEPT !.path = "p2_fallback", !.out = out,
                                            !.method = "silencedetect_fallback",
                                            !.noise = noise, !.ranges = ranges]]
            /\ Send(r, P2Answer(P2BaseDb(body[r]), ranges, 0, "silencedetect_fallback"))
    /\ pc' = [pc EXCEPT ![r] = "done"]
    /\ UNCHANGED <<body, tmpVid, invoked>>

(***************************************************************************)
(* The inputs: request bodies and the texts the tools print.               *)
(***************************************************************************)
SeqsUpTo(alphabet, n) == UNION { [1..k -> alphabet] : k \in 0..n }

Requests == {1}

\* Spec: every shape of video_url and source with the defaults, and a
\* request by URL with the horizon and the floor absent or given
Bodies ==
    { [NoBody EXCEPT !.video_url = u, !.source = s] :
        u \in BOOLEAN, s \in {"absent", "empty", "ok"} }
    \cup
    { [NoBody EXCEPT !.video_url = TRUE, !.max_seconds = ms, !.base_db = db] :
        ms \in {{}, {20}}, db \in {{}, {-10}} }

PrimaryAlphabet ==
    { Tok("pts", 40), Tok("rmsA", -10), Tok("rmsB", -40), Tok("rmsB", NaN), Tok("junk", 0) }

SilenceAlphabet ==
    { Tok("start", 10), Tok("end", 30), Tok("end", -5), Tok("start", NaN), Tok("rmsB", -10) }

PrimaryTexts == SeqsUpTo(PrimaryAlphabet, MaxTokens)

SilenceTexts == SeqsUpTo(SilenceAlphabet, MaxTokens)

ProbeOutcomes == {"stream", "empty", "fail"}

Init == InitFor(Requests)

Next ==
    \/ \E r \in DOMAIN pc : Arrive(r, Bodies)
    \/ \E r \in DOMAIN pc : DownloadOk(r)
    \/ \E r \in DOMAIN pc : DownloadFail(r)
    \/ \E r \in DOMAIN pc : ProbeDone(r, ProbeOutcomes)
    \/ \E r \in DOMAIN pc : Attempt1Ok(r, PrimaryTexts)
    \/ \E r \in DOMAIN pc : Attempt1Fail(r)
    \/ \E r \in DOMAIN pc : Attempt2Ok(r, PrimaryTexts)
    \/ \E r \in DOMAIN pc : Attempt2Fail(r)
    \/ \E r \in DOMAIN pc : SilenceOk(r, SilenceTexts)
    \/ \E r \in DOMAIN pc : SilenceFail(r)

Spec == Init /\ [][Next]_vars

(***************************************************************************)
(* SpecRanges: the primary path of both servers, over the configurations of *)
(* the threshold (with one pad and merge gap) and those of the pad and the  *)
(* merge gap (with the default threshold), and texts of timestamps and      *)
(* levels (the timestamps need not increase, a level may be NaN).           *)
(***************************************************************************)
RangeBodies ==
    { [NoBody EXCEPT !.video_url = TRUE, !.percentile = p, !.base_db = db,
                     !.pad = {5}, !.merge_gap = {10}] :
        p \in {{}, {0}, {100}}, db \in {{}, {-10}} }
    \cup
    { [NoBody EXCEPT !.video_url = TRUE, !.pad = pd, !.merge_gap = mg] :
        pd \in {{0}, {5}}, mg \in {{0}, {10}} }

RangeAlphabet ==
    { Tok("pts", 0), Tok("pts", 40), Tok("rmsB", -10), Tok("rmsB", -40), Tok("rmsB", NaN) }

RangeTexts == SeqsUpTo(RangeAlphabet, MaxTokens)

NextRanges ==
    \/ \E r \in DOMAIN pc : Arrive(r, RangeBodies)
    \/ \E r \in DOMAIN pc : DownloadOk(r)
    \/ \E r \in DOMAIN pc : ProbeDone(r, {"stream"})
    \/ \E r \in DOMAIN pc : Attempt1Ok(r, RangeTexts)
    \/ \E r \in DOMAIN pc : P2Arrive(r, RangeBodies)
    \/ \E r \in DOMAIN pc : P2RunDone(r, {TRUE}, RangeTexts)
    \/ \E r \in DOMAIN pc : P2SilenceDone(r, {TRUE}, {<<>>})

SpecRanges == Init /\ [][NextRanges]_vars

(***************************************************************************)
(* SpecScenarioA: the configuration of Scenario A (percentile 0.6, base_db *)
(* -35, pad 1, merge_gap 1) and texts of five frames at 0, 1, 2, 3 and 4 s, *)
(* each with one of the levels of the scenario.                            *)
(***************************************************************************)
ScenarioTimes == <<0, 20, 40, 60, 80>>

ScenarioLevels == <<-40, -10, -9, -41, -8>>

\* one line "pts_time:t" and one line "RMS_level=v" for each frame
FrameText(times, levels) ==
    [i \in 1..(2 * Len(times)) |->
        IF i % 2 = 1 THEN Tok("pts", times[(i + 1) \div 2]) ELSE Tok("rmsB", levels[i \div 2])]

ScenarioBodies ==
    { [NoBody EXCEPT !.video_url = TRUE, !.percentile = {60}, !.base_db = {-35},
                     !.pad = {20}, !.merge_gap = {20}] }

ScenarioTexts ==
    { FrameText(ScenarioTimes, lv) :
        lv \in [1..Len(ScenarioTimes) -> { ScenarioLevels[i] : i \in 1..Len(ScenarioLevels) }] }

NextScenarioA ==
    \/ \E r \in DOMAIN pc : Arrive(r, ScenarioBodies)
    \/ \E r \in DOMAIN pc : DownloadOk(r)
    \/ \E r \in DOMAIN pc : ProbeDone(r, {"stream"})
    \/ \E r \in DOMAIN pc : Attempt1Ok(r, ScenarioTexts)

SpecScenarioA == Init /\ [][NextScenarioA]_vars

(***************************************************************************)
(* SpecFallback: the fallback path of both servers (in server.js both      *)
(* attempts of the measurement fail, in part_002 the measurement prints no *)
(* level), with the horizon absent, 10 s or 25000 s, and silencedetect     *)
(* texts whose events lie inside the horizon, before 0, past 10 s or are   *)
(* not numbers.                                                            *)
(***************************************************************************)
FallbackBodies ==
    { [NoBody EXCEPT !.video_url = TRUE, !.max_seconds = ms] : ms \in {{}, {200}, {500000}} }

FallbackAlphabet ==
    { Tok("start", 40), Tok("end", 100), Tok("end", 40), Tok("start", 240), Tok("end", -20),
      Tok("start", NaN) }

FallbackTexts == SeqsUpTo(FallbackAlphabet, MaxTokens)

NextFallback ==
    \/ \E r \in DOMAIN pc : Arrive(r, FallbackBodies)
    \/ \E r \in DOMAIN pc : DownloadOk(r)
    \/ \E r \in DOMAIN pc : ProbeDone(r, {"stream"})
    \/ \E r \in DOMAIN pc : Attempt1Fail(r)
    \/ \E r \in DOMAIN pc : Attempt2Fail(r)
    \/ \E r \in DOMAIN pc : SilenceOk(r, FallbackTexts)
    \/ \E r \in DOMAIN pc : P2Arrive(r, FallbackBodies)
    \/ \E r \in DOMAIN pc : P2RunDone(r, BOOLEAN, {<<>>})
    \/ \E r \in DOMAIN pc : P2SilenceDone(r, BOOLEAN, FallbackTexts)

SpecFallback == Init /\ [][NextFallback]_vars

(***************************************************************************)
(* SpecPair: two requests in flight at once.  Every step of the handler of *)
(* one request may be followed by a step of the other; the bodies and the  *)
(* texts are small, the interleavings are all there.                       *)
(***************************************************************************)
MaxPairTokens == 1

PairRequests == {1, 2}

PairBodies ==
    { [NoBody EXCEPT !.video_url = TRUE, !.base_db = db] : db \in {{}, {-10}} }

PairPrimaryTexts == SeqsUpTo({ Tok("rmsB", -10), Tok("rmsB", -40) }, MaxPairTokens)

PairSilenceTexts == SeqsUpTo({ Tok("start", 10), Tok("end", 30) }, MaxPairTokens)

InitPair == InitFor(PairRequests)

NextPair ==
    \/ \E r \in DOMAIN pc : Arrive(r, PairBodies)
    \/ \E r \in DOMAIN pc : DownloadOk(r)
    \/ \E r \in DOMAIN pc : DownloadFail(r)
    \/ \E r \in DOMAIN pc : ProbeDone(r, {"stream", "empty"})
    \/ \E r \in DOMAIN pc : Attempt1Ok(r, PairPrimaryTexts)
    \/ \E r \in DOMAIN pc : Attempt1Fail(r)
    \/ \E r \in DOMAIN pc : Attempt2Ok(r, PairPrimaryTexts)
    \/ \E r \in DOMAIN pc : Attempt2Fail(r)
    \/ \E r \in DOMAIN pc : SilenceOk(r, PairSilenceTexts)
    \/ \E r \in DOMAIN pc : SilenceFail(r)

SpecPair == InitPair /\ [][NextPair]_vars

(***************************************************************************)
(* The tool runners.  execAsync (server.js 57-74) hands the command to     *)
(* child_process.exec with a maxBuffer and no timeout: its promise settles *)
(* in the callback exec makes when the child has ended.  runFfmpeg         *)
(* (part_001 44-112) spawns the child, arms a timer of maxMs and listens   *)
(* to the child's 'error' and 'close' events; the first of the three       *)
(* handlers to run settles the promise.  A handler runs to completion      *)
(* before the next one starts.  The clock of a runner counts twentieths of *)
(* a second since the spawn.                                               *)
(***************************************************************************)
ClockStep == 600

P1_DEFAULT_MAX_SECONDS == 36000

P1_MAX_MAX_SECONDS == 432000

P1_MAXMS_SLACK == 1200

P1_MAXMS_CAP == 12000

RUNFFMPEG_DEFAULT_MAXMS == 18000

\* code: null of a result, and the exit code close reports for a child
\* that could not be spawned
NoCode == -1

SpawnFailedCode == -2

P1clamp(n, a, b) == MathMax(a, MathMin(b, n))

\* clamp(Number(max_seconds) || 1800, 1, 21600)
P1MaxT(b) ==
    P1clamp(OrDefault(Field(b.max_seconds, NaN), P1_DEFAULT_MAX_SECONDS), MIN_MAX_SEC,
            P1_MAX_MAX_SECONDS)

\* Math.min(MAX_T * 1000 + 60_000, 10 * 60_000)
P1MaxMs(b) == MathMin(P1MaxT(b) + P1_MAXMS_SLACK, P1_MAXMS_CAP)

NoTool ==
    [runner |-> "none", maxMs |-> 0, elapsed |-> 0, settled |-> FALSE, timer |-> "none",
     child |-> "none", code |-> NoCode, signal |-> "null", kills |-> 0,
     errored |-> FALSE, closed |-> FALSE, calls |-> <<>>]

\* one call of resolve or reject with the fields of the result that tell the
\* three handlers apart
Settlement(kind, ok, code, signal, error, timeout) ==
    [kind |-> kind, ok |-> ok, code |-> code, signal |-> signal, error |-> error,
     timeout |-> timeout]

\* the callback of setTimeout
onTimeout(l) ==
    IF ~l.settled
    THEN [l EXCEPT !.settled = TRUE,
                   !.kills = @ + 1,
                   !.child = IF @ = "running" THEN "ended" ELSE @,
                   !.signal = IF l.child = "running" THEN "SIGKILL" ELSE @,
                   !.calls = Append(@, Settlement("resolve", FALSE, NoCode, "SIGKILL",
                                                  FALSE, TRUE))]
    ELSE l

\* child.on('error')
onError(l) ==
    IF l.settled THEN l
    ELSE [l EXCEPT !.settled = TRUE,
                   !.timer = IF @ = "armed" THEN "cleared" ELSE @,
                   !.calls = Append(@, Settlement("resolve", FALSE, NoCode, "null",
                                                  TRUE, FALSE))]

\* mutant of onClose: the handler does not test settled
onCloseUnguarded(l, code, signal) ==
    [l EXCEPT !.settled = TRUE,
              !.timer = IF @ = "armed" THEN "cleared" ELSE @,
              !.calls = Append(@, Settlement("resolve", code = 0, code, signal,
                                             FALSE, FALSE))]

\* child.on('close')
onClose(l, code, signal) ==
    IF l.settled THEN l
    ELSE [l EXCEPT !.settled = TRUE,
                   !.timer = IF @ = "armed" THEN "cleared" ELSE @,
                   !.calls = Append(@, Settlement("resolve", code = 0, code, signal,
                                                  FALSE, FALSE))]

\* the spawn either starts the child or fails; a failed spawn is reported
\* by the child's events
Spawned(l, started) ==
    [l EXCEPT !.child = IF started THEN "running" ELSE "unspawned",
              !.code = IF started THEN NoCode ELSE SpawnFailedCode]

\* part_001 211: await runFfmpeg(sdArgs, { maxMs }), or a call without maxMs
runFfmpeg(r, bodies, given) ==
    /\ pc[r] = "idle"
    /\ \E b \in bodies, g \in given, started \in BOOLEAN :
          LET opts == IF g THEN {P1MaxMs(b)} ELSE {}
          IN  /\ body' = [body EXCEPT ![r] = b]
              /\ loc' = [loc EXCEPT ![r] =
                           Spawned([NoTool EXCEPT !.runner = "runFfmpeg",
                                                  !.maxMs = Field(opts, RUNFFMPEG_DEFAULT_MAXMS),
                                                  !.timer = "armed"], started)]
    /\ invoked' = [invoked EXCEPT ![r].silencedetect = @ + 1]
    /\ pc' = [pc EXCEPT ![r] = "awaiting"]
    /\ UNCHANGED <<tmpVid, failed, res>>

\* server.js 377: await execAsync(cmd)
execAsync(r, bodies) ==
    /\ pc[r] = "idle"
    /\ \E b \in bodies, started \in BOOLEAN :
          /\ body' = [body EXCEPT ![r] = b]
          /\ loc' = [loc EXCEPT ![r] = Spawned([NoTool EXCEPT !.runner = "execAsync"], started)]
    /\ invoked' = [invoked EXCEPT ![r].astats = @ + 1]
    /\ pc' = [pc EXCEPT ![r] = "awaiting"]
    /\ UNCHANGED <<tmpVid, failed, res>>

\* time passes while a timer is pending
Tick(r) ==
    /\ loc[r].timer = "armed"
    /\ loc[r].elapsed < loc[r].maxMs
    /\ loc' = [loc EXCEPT ![r].elapsed = Min2(@ + ClockStep, loc[r].maxMs)]
    /\ UNCHANGED <<pc, body, tmpVid, invoked, failed, res>>

TimerFires(r) ==
    /\ loc[r].timer = "armed"
    /\ loc[r].elapsed >= loc[r].maxMs
    /\ loc' = [loc EXCEPT ![r] = [onTimeout(@) EXCEPT !.timer = "fired"]]
    /\ UNCHANGED <<pc, body, tmpVid, invoked, failed, res>>

\* the tool ends by itself
ChildExits(r, codes) ==
    /\ loc[r].child = "running"
    /\ \E code \in codes : loc' = [loc EXCEPT ![r].child = "ended", ![r].code = code]
    /\ UNCHANGED <<pc, body, tmpVid, invoked, failed, res>>

\* the 'error' event is emitted (the spawn failed, or a signal could not be
\* delivered)
ErrorEvent(r) ==
    /\ loc[r].runner = "runFfmpeg"
    /\ ~loc[r].errored
    /\ loc' = [loc EXCEPT ![r] = [onError(@) EXCEPT !.errored = TRUE]]
    /\ UNCHANGED <<pc, body, tmpVid, invoked, failed, res>>

\* the 'close' event is emitted once the child is gone
CloseEvent(r) ==
    /\ loc[r].runner = "runFfmpeg"
    /\ loc[r].child \in {"ended", "unspawned"}
    /\ ~loc[r].closed
    /\ loc' = [loc EXCEPT ![r] = [onClose(@, loc[r].code, loc[r].signal) EXCEPT !.closed = TRUE]]
    /\ UNCHANGED <<pc, body, tmpVid, invoked, failed, res>>

\* the callback of exec: reject on err, resolve otherwise
ExecCallback(r) ==
    /\ loc[r].runner = "execAsync"
    /\ loc[r].child \in {"ended", "unspawned"}
    /\ ~loc[r].settled
    /\ loc' = [loc EXCEPT ![r].settled = TRUE,
                          ![r].calls = Append(@, Settlement(IF loc[r].code = 0 THEN "resolve"
                                                            ELSE "reject",
                                                            loc[r].code = 0, loc[r].code,
                                                            loc[r].signal, loc[r].code # 0,
                                                            FALSE))]
    /\ UNCHANGED <<pc, body, tmpVid, invoked, failed, res>>

\* the await of the handler continues with the settled promise
Resume(r) ==
    /\ pc[r] = "awaiting"
    /\ loc[r].calls # <<>>
    /\ pc' = [pc EXCEPT ![r] = "resumed"]
    /\ failed' = [failed EXCEPT ![r] = IF loc[r].calls[1].kind = "reject"
                                       THEN @ \cup {"astats"} ELSE @]
    /\ UNCHANGED <<body, tmpVid, invoked, loc, res>>

ToolBodies == { [NoBody EXCEPT !.video_url = TRUE, !.max_seconds = m] : m \in {{}, {20}, {200}} }

ExitCodes == {0, 1}

InitTools ==
    /\ pc = [r \in Requests |-> "idle"]
    /\ body = [r \in Requests |-> NoBody]
    /\ tmpVid = [r \in Requests |-> "none"]
    /\ invoked = [r \in Requests |-> NoCalls]
    /\ failed = [r \in Requests |-> {}]
    /\ loc = [r \in Requests |-> NoTool]
    /\ res = [r \in Requests |-> <<>>]

NextTools ==
    \/ \E r \in DOMAIN pc : runFfmpeg(r, ToolBodies, BOOLEAN)
    \/ \E r \in DOMAIN pc : execAsync(r, ToolBodies)
    \/ \E r \in DOMAIN pc : Tick(r)
    \/ \E r \in DOMAIN pc : TimerFires(r)
    \/ \E r \in DOMAIN pc : ChildExits(r, ExitCodes)
    \/ \E r \in DOMAIN pc : ErrorEvent(r)
    \/ \E r \in DOMAIN pc : CloseEvent(r)
    \/ \E r \in DOMAIN pc : ExecCallback(r)
    \/ \E r \in DOMAIN pc : Resume(r)

SpecTools == InitTools /\ [][NextTools]_vars

\* the event loop runs a due timer, delivers the events of a child that is
\* gone and continues a settled await; nothing makes a tool exit
SpecToolsLive ==
    /\ InitTools
    /\ [][NextTools]_vars
    /\ WF_vars(\E r \in Requests : Tick(r))
    /\ WF_vars(\E r \in Requests : TimerFires(r))
    /\ WF_vars(\E r \in Requests : CloseEvent(r))
    /\ WF_vars(\E r \in Requests : ExecCallback(r))
    /\ WF_vars(\E r \in Requests : Resume(r))

(***************************************************************************)
(* The claims.                                                             *)
(***************************************************************************)
Answered(r) == pc[r] = "done" /\ Len(res[r]) = 1

\* the configured merge gap and pad, as the request sent them
ConfiguredMergeGap(r) ==
    IF loc[r].path = "p2_primary" THEN P2MergeGap(body[r])
    ELSE Field(body[r].merge_gap, DEFAULT_MERGE_GAP)

ConfiguredPad(r) ==
    IF loc[r].path = "p2_primary" THEN P2Pad(body[r]) ELSE Field(body[r].pad, DEFAULT_PAD)

NumericLevels(pts) == \A i \in 1..Len(pts) : ~IsNaN(pts[i].rms)

\* C1: on the primary path (of server.js, and of part_002 with its
\* rangesFromRMS), with pad >= 0 and mergeGap >= 0 configured, the ranges
\* returned are sorted by start ascending, pairwise disjoint, and between
\* two consecutive ranges next.start - prev.end is strictly greater than
\* the configured mergeGap.
C1_RangesSortedDisjointGapped ==
    \A r \in DOMAIN pc :
        (Answered(r) /\ loc[r].path \in {"primary", "p2_primary"}
            /\ ConfiguredPad(r) >= 0 /\ ConfiguredMergeGap(r) >= 0) =>
        LET m == res[r][1].ranges
        IN  /\ \A i \in 1..(Len(m) - 1) :
                  /\ m[i].start <= m[i + 1].start
                  /\ m[i + 1].start - m[i].end > ConfiguredMergeGap(r)
            /\ \A i, j \in 1..Len(m) : i < j => m[i].end < m[j].start

C1_Witness ==
    \E r \in DOMAIN pc :
        /\ Answered(r) /\ loc[r].path = "primary"
        /\ Len(res[r][1].ranges) >= 2
        /\ ConfiguredMergeGap(r) > 0

\* the values a range of the fallback may have at an end: 0, the horizon,
\* or the time of a silence event of the text, cut at the horizon
SilenceEndpoints(r) ==
    {0, MaxSec(body[r])} \cup
    { MathMin(loc[r].out[i].v, MaxSec(body[r])) :
        i \in { j \in 1..Len(loc[r].out) : loc[r].out[j].k \in {"start", "end"} } }

BothAttemptsFailed(r) == {"attempt1", "attempt2"} \subseteq failed[r]

\* C2: when the primary measurement fails and silencedetect succeeds, the
\* request answers ok = true with method silencedetect_fallback, points = 0,
\* threshold = base_db, and ranges made of silence events only; nothing of
\* the primary path (samples, percentile threshold, raw or merged ranges) is
\* in it.
C2_FallbackAnswerOnly ==
    \A r \in DOMAIN pc :
        (pc[r] = "done" /\ BothAttemptsFailed(r) /\ "silencedetect" \notin failed[r]) =>
        /\ Len(res[r]) = 1
        /\ res[r][1].status = 200 /\ res[r][1].ok
        /\ res[r][1].method = "silencedetect_fallback"
        /\ res[r][1].points = 0
        /\ res[r][1].threshold = BaseDb(body[r])
        /\ \A i \in 1..Len(res[r][1].ranges) :
              /\ res[r][1].ranges[i].start \in SilenceEndpoints(r)
              /\ res[r][1].ranges[i].end \in SilenceEndpoints(r)
        /\ loc[r].pts = <<>> /\ loc[r].sorted = <<>>
        /\ loc[r].raw = <<>> /\ loc[r].merged = <<>>

C2_Witness ==
    \E r \in DOMAIN pc :
        /\ pc[r] = "done" /\ BothAttemptsFailed(r) /\ "silencedetect" \notin failed[r]
        /\ Len(res[r]) = 1 /\ Len(res[r][1].ranges) >= 2
        /\ \E i \in 1..Len(loc[r].out) : loc[r].out[i].k = "rmsB"
        /\ body[r].base_db # {}

\* C3: when the primary tool exits successfully and its text yields zero
\* samples, silencedetect is invoked and the response reports the fallback
\* method, as when the primary invocation fails.
C3_EmptySamplesFallBack ==
    \A r \in DOMAIN pc :
        (pc[r] = "done" /\ loc[r].path = "empty") =>
        /\ invoked[r].silencedetect = 1
        /\ Len(res[r]) = 1
        /\ res[r][1].method = "silencedetect_fallback"

\* C4: when the probe reports no audio stream the request ends at once with
\* method no_audio, ranges [], points 0 and threshold base_db, and neither
\* the measurement tool nor silencedetect is ever invoked.
C4_NoAudioEndsAtOnce ==
    \A r \in DOMAIN pc :
        loc[r].hasAudio = "empty" =>
        /\ pc[r] = "done"
        /\ Len(res[r]) = 1
        /\ res[r][1].status = 200 /\ res[r][1].ok
        /\ res[r][1].method = "no_audio"
        /\ res[r][1].ranges = <<>>
        /\ res[r][1].points = 0
        /\ res[r][1].threshold = BaseDb(body[r])
        /\ invoked[r].astats = 0 /\ invoked[r].silencedetect = 0

C4_Witness ==
    \E r \in DOMAIN pc :
        loc[r].hasAudio = "empty" /\ Len(res[r]) = 1 /\ body[r].base_db # {}

\* C5: when every primary invocation and silencedetect fail, the request
\* ends with HTTP 500 and ok = false and no ranges; no response has
\* ok = false together with a ranges field; no response with ok = true is
\* sent after silencedetect failed.
C5_AllOrNothing ==
    \A r \in DOMAIN pc :
        /\ (pc[r] = "done" /\ BothAttemptsFailed(r) /\ "silencedetect" \in failed[r]) =>
              /\ Len(res[r]) = 1
              /\ res[r][1].status = 500 /\ ~res[r][1].ok
              /\ "ranges" \notin DOMAIN res[r][1]
        /\ \A i \in 1..Len(res[r]) : ~res[r][i].ok => "ranges" \notin DOMAIN res[r][i]
        /\ "silencedetect" \in failed[r] => \A i \in 1..Len(res[r]) : ~res[r][i].ok

C5_Witness ==
    \E r \in DOMAIN pc :
        pc[r] = "done" /\ BothAttemptsFailed(r) /\ "silencedetect" \in failed[r]

\* the text the tool printed, by token family
CountOf(out, kinds) == Len(Matches(out, kinds))

\* C6: whenever the tool run that supplies the text exits successfully the
\* request answers ok = true, whatever the text holds: parsing and
\* computation never turn into a request failure.
C6_TextNeverFailsRequest ==
    \A r \in DOMAIN pc :
        (pc[r] = "done" /\ loc[r].path \in {"primary", "empty", "fallback"}) =>
        /\ Len(res[r]) = 1
        /\ res[r][1].status = 200 /\ res[r][1].ok

\* a text with timestamps and no level, answered
C6_Witness ==
    \E r \in DOMAIN pc :
        /\ Answered(r) /\ loc[r].path = "empty"
        /\ CountOf(loc[r].out, {"pts"}) > 0
        /\ CountOf(loc[r].out, {"rmsA", "rmsB"}) = 0

Percentiles == {-50, 0, 30, 60, 100, 150}

C8_TrailingIntervalKept ==
    \A r \in DOMAIN pc :
        (loc[r].path = "primary"
            /\ JsGE(loc[r].pts[Len(loc[r].pts)].rms, loc[r].TH)) =>
        /\ loc[r].raw # <<>>
        /\ loc[r].raw[Len(loc[r].raw)].end = loc[r].pts[Len(loc[r].pts)].t

C8_Witness ==
    \E r \in DOMAIN pc :
        /\ loc[r].path = "primary"
        /\ Len(loc[r].pts) >= 3
        /\ JsGE(loc[r].pts[Len(loc[r].pts)].rms, loc[r].TH)
        /\ JsLT(loc[r].pts[Len(loc[r].pts) - 1].rms, loc[r].TH)
        /\ Len(loc[r].raw) >= 2

\* the maximal run of consecutive samples at or above TH around sample i
RunFirst(pts, TH, i) ==
    CHOOSE a \in 1..i :
        /\ \A k \in a..i : JsGE(pts[k].rms, TH)
        /\ (a = 1 \/ ~JsGE(pts[a - 1].rms, TH))

RunLast(pts, TH, i) ==
    CHOOSE b \in i..Len(pts) :
        /\ \A k \in i..b : JsGE(pts[k].rms, TH)
        /\ (b = Len(pts) \/ ~JsGE(pts[b + 1].rms, TH))

\* C9: a sample whose level equals the threshold is active: it opens a raw
\* interval when none is open (the interval starts at its t) and extends the
\* open one otherwise (the interval of the run it is in reaches its t).
C9_EqualToThresholdIsActive ==
    \A r \in DOMAIN pc :
        loc[r].path = "primary" =>
        \A i \in 1..Len(loc[r].pts) :
            loc[r].pts[i].rms = loc[r].TH /\ ~IsNaN(loc[r].TH) =>
            \E k \in 1..Len(loc[r].raw) :
                /\ loc[r].raw[k].start = loc[r].pts[RunFirst(loc[r].pts, loc[r].TH, i)].t
                /\ loc[r].raw[k].end = loc[r].pts[RunLast(loc[r].pts, loc[r].TH, i)].t

\* a sample equal to the threshold opens an interval, another one equal to
\* it extends the interval
C9_Witness ==
    \E r \in DOMAIN pc :
        /\ loc[r].path = "primary" /\ ~IsNaN(loc[r].TH)
        /\ \E i \in 2..Len(loc[r].pts) :
              /\ loc[r].pts[i].rms = loc[r].TH
              /\ loc[r].pts[i - 1].rms = loc[r].TH
              /\ RunFirst(loc[r].pts, loc[r].TH, i) < i
        /\ \E i \in 1..Len(loc[r].pts) : JsLT(loc[r].pts[i].rms, loc[r].TH)

\* the pad, sort and merge step, and its sort and merge part alone
PadSortMerge(raw, PAD, MERGE) == MergeRanges(PadSort(raw, PAD), MERGE)

SortMerge(ranges, MERGE) == MergeRanges(SortByStart(ranges), MERGE)

\* C10 as stated: the pad, sort and merge step, run again on its own output
\* with the same pad and mergeGap, yields the same list.
C10_PadSortMergeIdempotent ==
    \A r \in DOMAIN pc :
        loc[r].path = "primary" =>
        PadSortMerge(loc[r].merged, loc[r].PAD, loc[r].MERGE) = loc[r].merged

\* C10 as amended: the sort and merge part alone, run again on the output
\* with the same mergeGap, yields the same list; the whole step does not,
\* it pads every range once more, so that no non-empty output is a fixed
\* point of it.
C10_SortMergeIdempotent ==
    \A r \in DOMAIN pc :
        loc[r].path = "primary" =>
        /\ SortMerge(loc[r].merged, loc[r].MERGE) = loc[r].merged
        /\ loc[r].merged # <<>> =>
              PadSortMerge(loc[r].merged, loc[r].PAD, loc[r].MERGE) # loc[r].merged

C10_Witness ==
    \E r \in DOMAIN pc :
        /\ loc[r].path = "primary"
        /\ Len(loc[r].merged) >= 2
        /\ Len(PadSortMerge(loc[r].merged, loc[r].PAD, loc[r].MERGE)) = 1

\* the samples of Scenario A: (0,-40), (1,-10), (2,-9), (3,-41), (4,-8)
ScenarioSamples ==
    [i \in 1..Len(ScenarioTimes) |-> [t |-> ScenarioTimes[i], rms |-> ScenarioLevels[i]]]

InScenarioA(r) ==
    /\ loc[r].path = "primary"
    /\ loc[r].pts = ScenarioSamples
    /\ body[r] \in ScenarioBodies

\* C11 as stated: in Scenario A the raw intervals are [(1,2),(4,4)], the
\* padded intervals [(0,3),(3,5)] and the ranges returned [(0,5)].
C11_ScenarioAAsStated ==
    \A r \in DOMAIN pc :
        InScenarioA(r) =>
        /\ loc[r].raw = <<Interval(20, 40), Interval(80, 80)>>
        /\ loc[r].ranges = <<Interval(0, 60), Interval(60, 100)>>
        /\ Answered(r) /\ res[r][1].ranges = <<Interval(0, 100)>>

\* C11 as amended: in Scenario A the rank is floor(0.6 * 5) = 3, the
\* threshold is the level -9 at that rank (above the floor -35), the raw
\* intervals are [(2,2),(4,4)], the padded intervals [(1,3),(3,5)], whose gap
\* 0 <= 1 merges them, and the ranges returned are [(1,5)].
C11_ScenarioA ==
    \A r \in DOMAIN pc :
        InScenarioA(r) =>
        /\ loc[r].sorted = <<-41, -40, -10, -9, -8>>
        /\ loc[r].TH = -9
        /\ loc[r].raw = <<Interval(40, 40), Interval(80, 80)>>
        /\ loc[r].ranges = <<Interval(20, 60), Interval(60, 100)>>
        /\ Answered(r) /\ res[r][1].ranges = <<Interval(20, 100)>>
        /\ res[r][1].threshold = -9 /\ res[r][1].points = 5

C11_Witness == \E r \in DOMAIN pc : InScenarioA(r) /\ Answered(r)

\* the cursor walk of silence events: a Start at s emits (cursor, s) when
\* s > cursor, an End at e moves the cursor to e, and after the last event
\* (cursor, maxSeconds) is emitted when cursor < maxSeconds
RECURSIVE CursorWalk(_, _, _, _, _)
CursorWalk(events, i, cursor, emitted, maxSeconds) ==
    IF i > Len(events)
    THEN IF cursor < maxSeconds
         THEN Append(emitted, Interval(cursor, maxSeconds))
         ELSE emitted
    ELSE IF events[i].k = "start"
         THEN CursorWalk(events, i + 1, cursor,
                         IF events[i].v > cursor
                         THEN Append(emitted, Interval(cursor, events[i].v))
                         ELSE emitted,
                         maxSeconds)
         ELSE CursorWalk(events, i + 1, events[i].v, emitted, maxSeconds)

\* what of a list of intervals lies inside [0, maxSeconds]
RECURSIVE InsideHorizon(_, _)
InsideHorizon(intervals, maxSeconds) ==
    IF intervals = <<>> THEN <<>>
    ELSE LET s == IF Head(intervals).start > maxSeconds THEN maxSeconds
                  ELSE Head(intervals).start
             e == IF Head(intervals).end > maxSeconds THEN maxSeconds ELSE Head(intervals).end
         IN  (IF s < e THEN <<Interval(s, e)>> ELSE <<>>)
                 \o InsideHorizon(Tail(intervals), maxSeconds)

\* the events are numbers, none before 0
EventsFromZero(events) ==
    \A i \in 1..Len(events) : ~IsNaN(events[i].v) /\ events[i].v >= 0

ScenarioBEvents == <<Tok("start", 40), Tok("end", 100)>>

\* C12: on the fallback path of server.js, for every sequence of silence
\* events from 0 on (time-ordered or not), the intervals before padding are
\* what the cursor walk from cursor = 0 emits, inside [0, maxSeconds];
\* [Start(2), End(5)] with maxSeconds = 10 gives [(0,2),(5,10)] and no event
\* gives [(0, maxSeconds)].
C12_SilenceComplementWalk ==
    \A r \in DOMAIN pc :
        (loc[r].path = "fallback" /\ EventsFromZero(loc[r].noise)) =>
        /\ loc[r].ranges
              = InsideHorizon(CursorWalk(loc[r].noise, 1, 0, <<>>, loc[r].MAX_T), loc[r].MAX_T)
        /\ res[r][1].ranges = loc[r].ranges
        /\ (loc[r].noise = ScenarioBEvents /\ loc[r].MAX_T = 200) =>
              loc[r].ranges = <<Interval(0, 40), Interval(100, 200)>>
        /\ loc[r].noise = <<>> => loc[r].ranges = <<Interval(0, loc[r].MAX_T)>>

\* Scenario B, and a walk with an End that no Start precedes and a Start
\* past the horizon
C12_Witness ==
    \E r \in DOMAIN pc :
        /\ loc[r].path = "fallback" /\ Answered(r) /\ loc[r].MAX_T = 200
        /\ \/ loc[r].noise = ScenarioBEvents
           \/ loc[r].noise = <<Tok("end", 40), Tok("start", 240)>>

\* the response of request r run alone, from its own body, the outcome of
\* its own probe, the failures of its own tool runs and the text of its own
\* last tool run
SoloResponse(r) ==
    LET b == body[r]
        out == loc[r].out
        MAX_T == MaxSec(b)
        pts == ParseSamples(out, MAX_T)
        TH == Threshold(SortAsc(Levels(pts)), Field(b.percentile, DEFAULT_PERCENTILE), BaseDb(b))
        PAD == OrDefault(Field(b.pad, DEFAULT_PAD), DEFAULT_PAD)
        MERGE == OrDefault(Field(b.merge_gap, DEFAULT_MERGE_GAP), DEFAULT_MERGE_GAP)
    IN  IF ~b.video_url /\ b.source = "absent" THEN BadRequest
        ELSE IF "download" \in failed[r] THEN ServerError("download")
        ELSE IF ~HasAudioStream(loc[r].hasAudio) THEN NoAudioAnswer(b)
        ELSE IF "silencedetect" \in failed[r] THEN ServerError("silencedetect")
        ELSE IF BothAttemptsFailed(r)
        THEN Answer(b, BaseDb(b), SilenceRanges(ParseNoise(out), MAX_T), 0, "none",
                    "silencedetect_fallback")
        ELSE IF pts = <<>> THEN EmptySamplesAnswer(b)
        ELSE Answer(b, TH, MergeRanges(PadSort(RawRanges(pts, TH, MAX_T), PAD), MERGE),
                    Len(pts), "none", "astats_ametadata")

\* C13: under every interleaving of the steps of two requests in flight,
\* a request that is done has sent exactly one response, the one it sends
\* when it runs alone on the same body and tool outputs; a request that is
\* not done has sent none.
C13_ResponseAsAlone ==
    \A r \in DOMAIN pc :
        IF pc[r] = "done" THEN res[r] = <<SoloResponse(r)>> ELSE res[r] = <<>>

\* request 1 has answered with ranges from samples while request 2, with
\* another body, waits for its silencedetect
C13_Witness ==
    /\ DOMAIN pc = PairRequests
    /\ Answered(1) /\ loc[1].path = "primary" /\ res[1][1].ranges # <<>>
    /\ pc[2] = "silencedetect" /\ body[2] # body[1]

\* the horizon a request on a fallback path ran with
HorizonUsed(r) == loc[r].MAX_T

\* C14: the horizon is 1200 s when the request carries no max_seconds, and
\* for every max_seconds it lies in [1 s, 21600 s].
C14_HorizonWithinCeiling ==
    \A r \in DOMAIN pc :
        loc[r].path \in {"fallback", "p2_fallback"} =>
        /\ body[r].max_seconds = {} => HorizonUsed(r) = DEFAULT_MAX_SECONDS
        /\ HorizonUsed(r) >= MIN_MAX_SEC
        /\ HorizonUsed(r) <= P2_MAX_MAX_SECONDS

\* floor(percentile * N) clamped into [0, N - 1], percentile in percent
ClampedRank(N, percentile) ==
    LET i == (percentile * N) \div 100
    IN  IF i < 0 THEN 0 ELSE IF i > N - 1 THEN N - 1 ELSE i

\* max(sorted[i], base_db) for the levels in ascending order
RankThreshold(levels, percentile, base_db) ==
    LET sorted == SortAsc(levels)
        v == sorted[ClampedRank(Len(levels), percentile) + 1]
    IN  IF v >= base_db THEN v ELSE base_db

\* the numeric levels of the samples of request r, in text order (part_002
\* keeps the levels alone)
LevelsOf(r) ==
    IF loc[r].path = "p2_primary" THEN loc[r].pts ELSE Levels(loc[r].pts)

ConfiguredPercentile(r) == Field(body[r].percentile, DEFAULT_PERCENTILE)

\* C15: for every non-empty sequence of numeric levels, every percentile and
\* every base_db the threshold returned is max(sorted[i], base_db) with
\* i = floor(percentile * N) clamped into [0, N-1], without interpolation
\* (part_002 reports it in hundredths of a dB).
C15_ThresholdIsRankLevel ==
    \A r \in DOMAIN pc :
        (Answered(r) /\ loc[r].path \in {"primary", "p2_primary"}
            /\ \A i \in 1..Len(LevelsOf(r)) : ~IsNaN(LevelsOf(r)[i])) =>
        LET expected == RankThreshold(LevelsOf(r), ConfiguredPercentile(r), BaseDb(body[r]))
        IN  IF loc[r].path = "primary"
            THEN res[r][1].threshold = expected
            ELSE res[r][1].threshold = 100 * expected

\* the pad and the merge gap a request of server.js runs with
EffectivePad(r) == OrDefault(Field(body[r].pad, DEFAULT_PAD), DEFAULT_PAD)

EffectiveMergeGap(r) ==
    OrDefault(Field(body[r].merge_gap, DEFAULT_MERGE_GAP), DEFAULT_MERGE_GAP)

\* some range of the list holds every point of [s, e]
Covered(ranges, s, e) ==
    \E k \in 1..Len(ranges) : ranges[k].start <= s /\ e <= ranges[k].end

\* C16: on the fallback path the ranges returned are the complement
\* intervals padded by pad and merged by mergeGap: every complement interval,
\* widened by pad on both sides (inside [0, horizon]), lies within one
\* returned range, and consecutive returned ranges are more than mergeGap
\* apart.
C16_FallbackPaddedAndMerged ==
    \A r \in DOMAIN pc :
        (Answered(r) /\ loc[r].path = "fallback" /\ EventsFromZero(loc[r].noise)) =>
        LET complement == loc[r].ranges
            returned == res[r][1].ranges
        IN  /\ \A i \in 1..Len(complement) :
                  Covered(returned,
                          MathMax(0, complement[i].start - EffectivePad(r)),
                          MathMin(loc[r].MAX_T, complement[i].end + EffectivePad(r)))
            /\ \A k \in 1..(Len(returned) - 1) :
                  returned[k + 1].start - returned[k].end > EffectiveMergeGap(r)

\* C17: within one request the measurement tool is invoked at most once and
\* silencedetect at most once, and silencedetect only after the one
\* measurement attempt has failed.
C17_OnePrimaryAttempt ==
    \A r \in DOMAIN pc :
        /\ invoked[r].astats <= 1
        /\ invoked[r].silencedetect <= 1
        /\ invoked[r].silencedetect = 1 =>
              invoked[r].astats = 1 /\ "attempt1" \in failed[r]

\* C18: every endpoint of a range of a fallback path lies in
\* [0, maxSeconds], whatever the timestamps of the silence events are.
C18_FallbackEndpointsInHorizon ==
    \A r \in DOMAIN pc :
        (Answered(r) /\ loc[r].path \in {"fallback", "p2_fallback"}) =>
        \A i \in 1..Len(res[r][1].ranges) :
            LET range == res[r][1].ranges[i]
            IN  /\ ~IsNaN(range.start) /\ ~IsNaN(range.end)
                /\ 0 <= range.start /\ range.start <= loc[r].MAX_T
                /\ 0 <= range.end /\ range.end <= loc[r].MAX_T

\* the merge of the claim: the next padded interval joins the last range
\* exactly when next.start - last.end <= mergeGap
RECURSIVE GapMerge(_, _, _, _)
GapMerge(padded, i, out, mergeGap) ==
    IF i > Len(padded) THEN out
    ELSE IF out # <<>> /\ padded[i].start - out[Len(out)].end <= mergeGap
    THEN GapMerge(padded, i + 1,
                  [out EXCEPT ![Len(out)].end =
                      IF padded[i].end > @ THEN padded[i].end ELSE @],
                  mergeGap)
    ELSE GapMerge(padded, i + 1, Append(out, padded[i]), mergeGap)

\* C19: on the primary path of server.js the padded intervals are merged
\* exactly when next.start - last.end <= mergeGap, for every configured
\* mergeGap >= 0, 0 included.
C19_MergeByConfiguredGap ==
    \A r \in DOMAIN pc :
        (Answered(r) /\ loc[r].path = "primary" /\ ConfiguredMergeGap(r) >= 0) =>
        res[r][1].ranges = GapMerge(loc[r].ranges, 1, <<>>, ConfiguredMergeGap(r))

\* start' = max(0, start - pad), end' = end + pad
PaddedBy(raw, pad) ==
    [i \in 1..Len(raw) |->
        Interval(IF raw[i].start - pad > 0 THEN raw[i].start - pad ELSE 0, raw[i].end + pad)]

\* C20: on the primary path of server.js, for every configured pad >= 0, 0
\* included, the padded intervals are (max(0, start - pad), end + pad) of
\* the raw intervals (in order of start), with pad = 0 they are the raw
\* intervals, and every range returned starts at 0 or later.
C20_PadByConfiguredPad ==
    \A r \in DOMAIN pc :
        (Answered(r) /\ loc[r].path = "primary" /\ ConfiguredPad(r) >= 0) =>
        /\ loc[r].ranges = SortByStart(PaddedBy(loc[r].raw, ConfiguredPad(r)))
        /\ ConfiguredPad(r) = 0 => loc[r].ranges = SortByStart(loc[r].raw)
        /\ \A i \in 1..Len(res[r][1].ranges) : res[r][1].ranges[i].start >= 0

\* the timestamp markers and the loudness values of the text, each in order
\* of appearance
MarkersOf(out) == Values(Matches(out, {"pts"}))

LoudnessOf(out) == Values(Matches(out, {"rmsA", "rmsB"}))

\* C21: when the text holds a timestamp marker, sample i is the i-th marker
\* with the i-th loudness value, both in order of appearance; synthetic
\* timestamps only when the text holds loudness values and no marker.
C21_PairedInOrderOfAppearance ==
    \A r \in DOMAIN pc :
        (loc[r].path \in {"primary", "empty"} /\ MarkersOf(loc[r].out) # <<>>) =>
        LET markers == MarkersOf(loc[r].out)
            loudness == LoudnessOf(loc[r].out)
            pts == loc[r].pts
        IN  /\ Len(pts) <= Len(markers) /\ Len(pts) <= Len(loudness)
            /\ \A i \in 1..Len(pts) : pts[i].t = markers[i] /\ pts[i].rms = loudness[i]

\* C22: every sample that enters threshold selection and range building has
\* t <= maxSeconds, later ones are discarded without an error, and the points
\* count of the response is the number of samples kept.
C22_SamplesWithinHorizon ==
    \A r \in DOMAIN pc :
        loc[r].path = "primary" =>
            /\ loc[r].MAX_T = MaxSec(body[r])
            /\ \A i \in 1..Len(loc[r].pts) : loc[r].pts[i].t <= loc[r].MAX_T
            /\ Len(loc[r].sorted) = Len(loc[r].pts)
            /\ Answered(r)
            /\ res[r][1].status = 200
            /\ res[r][1].points = Len(loc[r].pts)

\* a synthetic timestamp beyond the horizon was discarded, the rest answered
C22_Witness ==
    \E r \in DOMAIN pc :
        /\ loc[r].path = "primary"
        /\ Answered(r)
        /\ res[r][1].points = 3
        /\ Len(LoudnessOf(loc[r].out)) = 4
        /\ loc[r].MAX_T = 20

\* C23: every interval of the ranges returned by /astats, on the primary and
\* on the fallback path, has end >= start, whatever the order of the
\* timestamps in the text and for every pad >= 0.
C23_EndNotBeforeStart ==
    \A r \in DOMAIN pc :
        (Answered(r) /\ res[r][1].status = 200) =>
            \A i \in 1..Len(res[r][1].ranges) :
                res[r][1].ranges[i].end >= res[r][1].ranges[i].start

\* the promise of a tool runner has been settled by the timer
TimedOut(l) == l.calls # <<>> /\ l.calls[1].timeout

\* C24: every tool invocation made for a request has an enforced time limit:
\* a tool that has not exited when the limit elapses is killed and the
\* invocation completes as a failure, so that an awaiting handler always
\* continues, whether or not the tool ever exits.
C24_ToolCannotBlockRequest ==
    \A r \in Requests : (pc[r] = "awaiting") ~> (pc[r] = "resumed")

\* C30: the promise of runFfmpeg is settled at most once and only by resolve;
\* a timer that fires first sends one SIGKILL and resolves ok = false with
\* signal SIGKILL, which no later event changes; a close or an error that
\* comes first cancels the timer, which then never kills; ok = true only
\* for a close with exit code 0; a continued await has its one settlement.
C30_SettledOnce ==
    \A r \in DOMAIN pc :
        loc[r].runner = "runFfmpeg" =>
            LET l == loc[r]
            IN  /\ Len(l.calls) <= 1
                /\ l.settled <=> Len(l.calls) = 1
                /\ pc[r] = "resumed" => Len(l.calls) = 1
                /\ \A i \in 1..Len(l.calls) : l.calls[i].kind = "resolve"
                /\ l.timer = "fired" =>
                       /\ TimedOut(l)
                       /\ l.elapsed >= l.maxMs
                /\ TimedOut(l) =>
                       /\ l.timer = "fired"
                       /\ l.kills = 1
                       /\ l.calls[1] = Settlement("resolve", FALSE, NoCode, "SIGKILL",
                                                  FALSE, TRUE)
                /\ (l.settled /\ ~TimedOut(l)) =>
                       /\ l.timer = "cleared"
                       /\ l.kills = 0
                       /\ l.errored \/ l.closed
                /\ (l.settled /\ l.calls[1].ok) =>
                       /\ l.closed
                       /\ l.code = 0
                       /\ l.calls[1].code = 0
                       /\ ~l.calls[1].error
                /\ l.kills > 0 => l.signal \in {"null", "SIGKILL"}

\* the timer fired first, the close of the killed child came later
C30_Witness ==
    \E r \in DOMAIN pc :
        /\ loc[r].runner = "runFfmpeg"
        /\ TimedOut(loc[r])
        /\ loc[r].closed
        /\ loc[r].signal = "SIGKILL"
        /\ loc[r].errored
        /\ pc[r] = "resumed"

\* C25: a request that has created its temporary media file has removed it
\* when its response is sent, on every exit path: success, no-audio,
\* empty-samples, fallback, and the failure of a download step, of the probe
\* or of a tool.
C25_TempFileRemoved ==
    \A r \in DOMAIN pc : Answered(r) => tmpVid[r] # "exists"

\* C26: on the primary path every sample whose level is >= the threshold has
\* its time inside some returned range: padding and merging neither drop nor
\* shrink the coverage of an active sample.
C26_ActiveSamplesCovered ==
    \A r \in DOMAIN pc :
        (loc[r].path = "primary" /\ Answered(r)) =>
            \A i \in 1..Len(loc[r].pts) :
                IsActive(loc[r].pts[i].rms, loc[r].TH) =>
                    Covered(res[r][1].ranges, loc[r].pts[i].t, loc[r].pts[i].t)

C28_ProbeFailureIsNoAudio ==
    \A r \in DOMAIN pc :
        "ffprobe" \in failed[r] =>
            /\ Answered(r)
            /\ res[r][1] = NoAudioAnswer(body[r])
            /\ res[r][1].status = 200 /\ res[r][1].ok
            /\ res[r][1].method = "no_audio"
            /\ res[r][1].ranges = <<>>
            /\ failed[r] = {"ffprobe"}
            /\ invoked[r].astats = 0 /\ invoked[r].silencedetect = 0

\* the probe was started and failed, and the request has its answer
C28_Witness ==
    \E r \in DOMAIN pc :
        /\ loc[r].hasAudio = "fail"
        /\ invoked[r].ffprobe = 1
        /\ Answered(r)
        /\ res[r][1].method = "no_audio"

\* C29: a request that carries neither video_url nor source is answered
\* with HTTP 400 and ok = false before any download, probe or tool
\* invocation: no temp file is created and no collaborator is called.
C29_NeitherInputIsRefused ==
    \A r \in DOMAIN pc :
        (pc[r] # "idle" /\ ~body[r].video_url /\ body[r].source = "absent") =>
            /\ Answered(r)
            /\ res[r][1].status = 400 /\ ~res[r][1].ok
            /\ tmpVid[r] = "none"
            /\ invoked[r] = NoCalls
            /\ failed[r] = {}
            /\ loc[r] = NoLocals

\* a request with neither of the two inputs has been refused
C29_Witness ==
    \E r \in DOMAIN pc :
        /\ Answered(r)
        /\ ~body[r].video_url /\ body[r].source = "absent"
        /\ res[r][1] = BadRequest

====
